---------------------------- MODULE Spec2Model ----------------------------
(***************************************************************************)
(* Model of the MetricGraph component (src/src/components/MetricGraph.tsx, *)
(* the second variant, lines 272-690): CSV upload and parsing, category    *)
(* classification, the timeline/legend pipeline and the selection state.   *)
(*                                                                         *)
(* A string is a sequence of characters.  The characters of the model are  *)
(* the separators "," and "\n", the blank " ", and atomic words: the two   *)
(* required header names, a lower-case look-alike, letters for identifiers *)
(* and digits that stand for ISO-8601 instants.                            *)
(***************************************************************************)
EXTENDS Integers, Sequences, FiniteSets, TLC

VARIABLES
    csvData,            \* useState<MetricData[]>          (line 354)
    expectedMetrics,    \* Set from expectedMetricsInput   (lines 355, 420)
    actualMetrics,      \* Set from actualMetricsInput     (lines 356, 424)
    noiseMetrics,       \* Set from noiseMetricsInput      (lines 357, 428)
    missingMetrics,     \* Set from missingMetricsInput    (lines 358, 432)
    selectedMetricIds,  \* useState<string[]>              (line 365)
    hoveredMetricId,    \* useState<string | null>         (line 366)
    readers,            \* FileReaders whose read has not completed yet
    uploaded,           \* history: the texts of the uploads, in upload order
    toasts              \* the notifications issued through toast(), in order

vars == <<csvData, expectedMetrics, actualMetrics, noiseMetrics, missingMetrics,
          selectedMetricIds, hoveredMetricId, readers, uploaded, toasts>>

----------------------------------------------------------------------------
(* Bounds of the model *)

MaxUploads == 2
MaxRows == 3
MaxHeaderCells == 3

----------------------------------------------------------------------------
(* Strings *)

Str(w) == <<w>>

IsSpace(c) == c \in {" ", "\n"}

RECURSIVE TrimStart(_)
TrimStart(s) ==
    IF s # <<>> /\ IsSpace(Head(s)) THEN TrimStart(Tail(s)) ELSE s

RECURSIVE TrimEnd(_)
TrimEnd(s) ==
    IF s # <<>> /\ IsSpace(s[Len(s)]) THEN TrimEnd(SubSeq(s, 1, Len(s) - 1)) ELSE s

\* String.prototype.trim
Trim(s) == TrimEnd(TrimStart(s))

\* String.prototype.split(sep): never empty, "".split(sep) is [""]
RECURSIVE Split(_, _)
Split(s, sep) ==
    IF \E i \in 1..Len(s) : s[i] = sep
    THEN LET i == CHOOSE k \in 1..Len(s) :
                      s[k] = sep /\ \A j \in 1..(k - 1) : s[j] # sep
         IN  <<SubSeq(s, 1, i - 1)>> \o Split(SubSeq(s, i + 1, Len(s)), sep)
    ELSE <<s>>

\* lines[i].split(',').map(v => v.trim())
SplitTrim(line) ==
    LET cells == Split(line, ",")
    IN  [i \in 1..Len(cells) |-> Trim(cells[i])]

\* Array.prototype.indexOf, 0-based, -1 when absent
IndexOf(arr, x) ==
    IF \E i \in 1..Len(arr) : arr[i] = x
    THEN (CHOOSE i \in 1..Len(arr) : arr[i] = x /\ \A j \in 1..(i - 1) : arr[j] # x) - 1
    ELSE -1

Max(a, b) == IF a >= b THEN a ELSE b

----------------------------------------------------------------------------
(* parseCsv *)

METRICID == Str("METRICID")
TIMESTAMP == Str("TIMESTAMP")

RECURSIVE ParseRows(_, _, _, _)
ParseRows(lines, i, metricIdIndex, timestampIndex) ==
    IF i > Len(lines) THEN <<>>
    ELSE LET values == SplitTrim(lines[i])
             rest == ParseRows(lines, i + 1, metricIdIndex, timestampIndex)
         IN  IF Len(values) > Max(metricIdIndex, timestampIndex)
             THEN <<[METRICID |-> values[metricIdIndex + 1],
                     TIMESTAMP |-> values[timestampIndex + 1]]>> \o rest
             ELSE rest

\* mutant: the header cells are not trimmed before indexOf
ParseCsvUntrimmedHeader(csvString) ==
    LET lines == Split(Trim(csvString), "\n")
    IN  IF Len(lines) = 0 THEN [threw |-> FALSE, data |-> <<>>]
        ELSE LET headers == Split(lines[1], ",")
                 metricIdIndex == IndexOf(headers, METRICID)
                 timestampIndex == IndexOf(headers, TIMESTAMP)
             IN  IF metricIdIndex = -1 \/ timestampIndex = -1
                 THEN [threw |-> TRUE, data |-> <<>>]
                 ELSE [threw |-> FALSE,
                       data |-> ParseRows(lines, 2, metricIdIndex, timestampIndex)]

\* the result of parseCsv: threw = TRUE models the Error thrown at line 404
ParseCsv(csvString) ==
    LET lines == Split(Trim(csvString), "\n")
    IN  IF Len(lines) = 0 THEN [threw |-> FALSE, data |-> <<>>]
        ELSE LET headers == SplitTrim(lines[1])
                 metricIdIndex == IndexOf(headers, METRICID)
                 timestampIndex == IndexOf(headers, TIMESTAMP)
             IN  IF metricIdIndex = -1 \/ timestampIndex = -1
                 THEN [threw |-> TRUE, data |-> <<>>]
                 ELSE [threw |-> FALSE,
                       data |-> ParseRows(lines, 2, metricIdIndex, timestampIndex)]

----------------------------------------------------------------------------
(* Dates *)

\* the digits: each stands for the ISO-8601 text of one instant
Digits == {"1", "2", "3"}

DigitValue(c) == CASE c = "1" -> 1 [] c = "2" -> 2 [] c = "3" -> 3

\* parseISO(item.TIMESTAMP): a Date; valid = FALSE is the Invalid Date, whose
\* getTime() is NaN.  Only a text that is exactly one instant parses.
ParseISO(text) ==
    IF Len(text) = 1 /\ text[1] \in Digits
    THEN [valid |-> TRUE, time |-> DigitValue(text[1])]
    ELSE [valid |-> FALSE, time |-> 0]

----------------------------------------------------------------------------
(* Array.prototype.sort with a numeric comparator: a stable sort *)

\* x goes after every element that does not compare greater than it
InsertTime(sorted, x) ==
    LET n == Cardinality({i \in 1..Len(sorted) : \A j \in 1..i : sorted[j] <= x})
    IN  SubSeq(sorted, 1, n) \o <<x>> \o SubSeq(sorted, n + 1, Len(sorted))

RECURSIVE SortTimes(_)
SortTimes(s) ==
    IF s = <<>> THEN <<>>
    ELSE InsertTime(SortTimes(SubSeq(s, 1, Len(s) - 1)), s[Len(s)])

\* mutant: an unstable sort, an element goes before the elements equal to it
InsertElementBeforeEqual(sorted, e) ==
    LET n == Cardinality({i \in 1..Len(sorted) :
                             \A j \in 1..i : sorted[j].timestamp < e.timestamp})
    IN  SubSeq(sorted, 1, n) \o <<e>> \o SubSeq(sorted, n + 1, Len(sorted))

InsertElement(sorted, e) ==
    LET n == Cardinality({i \in 1..Len(sorted) :
                             \A j \in 1..i : sorted[j].timestamp <= e.timestamp})
    IN  SubSeq(sorted, 1, n) \o <<e>> \o SubSeq(sorted, n + 1, Len(sorted))

\* mutant: the final sort is left out, as in the first variant (line 160)
SortElementsOmitted(s) == s

\* graphElements.sort((a, b) => a.timestamp.getTime() - b.timestamp.getTime())
RECURSIVE SortElements(_)
SortElements(s) ==
    IF s = <<>> THEN <<>>
    ELSE InsertElement(SortElements(SubSeq(s, 1, Len(s) - 1)), s[Len(s)])

----------------------------------------------------------------------------
(* String order of the legend: a.id.localeCompare(b.id) *)

Alphabet == <<"\n", " ", ",", "1", "2", "3", "a", "b", "c", "x",
              "metricid", "METRICID", "TIMESTAMP">>

CharRank(c) == CHOOSE i \in 1..Len(Alphabet) : Alphabet[i] = c

RECURSIVE LocaleCompare(_, _)
LocaleCompare(s, t) ==
    IF s = <<>> /\ t = <<>> THEN 0
    ELSE IF s = <<>> THEN -1
    ELSE IF t = <<>> THEN 1
    ELSE IF CharRank(Head(s)) < CharRank(Head(t)) THEN -1
    ELSE IF CharRank(Head(s)) > CharRank(Head(t)) THEN 1
    ELSE LocaleCompare(Tail(s), Tail(t))

InsertMetric(sorted, m) ==
    LET n == Cardinality({i \in 1..Len(sorted) :
                             \A j \in 1..i : LocaleCompare(sorted[j].id, m.id) <= 0})
    IN  SubSeq(sorted, 1, n) \o <<m>> \o SubSeq(sorted, n + 1, Len(sorted))

RECURSIVE SortMetrics(_)
SortMetrics(s) ==
    IF s = <<>> THEN <<>>
    ELSE InsertMetric(SortMetrics(SubSeq(s, 1, Len(s) - 1)), s[Len(s)])

\* the elements of a Set of identifiers, one after the other
RECURSIVE SetToSeq(_)
SetToSeq(S) ==
    IF S = {} THEN <<>>
    ELSE LET m == CHOOSE x \in S : \A y \in S : LocaleCompare(x, y) <= 0
         IN  <<m>> \o SetToSeq(S \ {m})

----------------------------------------------------------------------------
(* The pipeline: processedGraphData and uniqueMetrics (useMemo, 436-515) *)

expectedColor == "#3b82f6"
actualColor == "#ef4444"
noiseColor == "#f59e0b"
missingColor == "#6b7280"

\* the rows whose timestamp parses (the others return early, lines 442-445)
ValidRows(csv) == SelectSeq(csv, LAMBDA item : ParseISO(item.TIMESTAMP).valid)

\* the keys of metricMap in insertion order: first valid row of each identifier
RECURSIVE MetricMapKeys(_)
MetricMapKeys(rows) ==
    IF rows = <<>> THEN <<>>
    ELSE LET init == MetricMapKeys(SubSeq(rows, 1, Len(rows) - 1))
             id == rows[Len(rows)].METRICID
         IN  IF \E i \in 1..Len(init) : init[i] = id THEN init ELSE Append(init, id)

\* metricMap.get(metricId): the parsed timestamps of the identifier, in row order
RECURSIVE MetricMapGet(_, _)
MetricMapGet(rows, metricId) ==
    IF rows = <<>> THEN <<>>
    ELSE LET rest == MetricMapGet(Tail(rows), metricId)
         IN  IF Head(rows).METRICID = metricId
             THEN <<ParseISO(Head(rows).TIMESTAMP).time>> \o rest
             ELSE rest

\* mutant: allCsvMetricIds.add runs before the invalid-timestamp return
AllCsvMetricIdsAnyRow(csv) == {csv[i].METRICID : i \in 1..Len(csv)}

\* allCsvMetricIds
AllCsvMetricIds(csv) ==
    {ValidRows(csv)[i].METRICID : i \in 1..Len(ValidRows(csv))}

\* mutant: the Actual test comes before the Expected test
ClassifyActualFirst(metricId, expected, actual, noise, missing) ==
    IF metricId \in actual
    THEN [matched |-> TRUE, color |-> actualColor, category |-> "Actual"]
    ELSE IF metricId \in expected
    THEN [matched |-> TRUE, color |-> expectedColor, category |-> "Expected"]
    ELSE IF metricId \in missing
    THEN [matched |-> TRUE, color |-> missingColor, category |-> "Missing (Found)"]
    ELSE IF metricId \in noise
    THEN [matched |-> TRUE, color |-> noiseColor, category |-> "Noise"]
    ELSE [matched |-> FALSE, color |-> "", category |-> ""]

\* category precedence, lines 463-479: Expected > Actual > Missing > Noise
Classify(metricId, expected, actual, noise, missing) ==
    IF metricId \in expected
    THEN [matched |-> TRUE, color |-> expectedColor, category |-> "Expected"]
    ELSE IF metricId \in actual
    THEN [matched |-> TRUE, color |-> actualColor, category |-> "Actual"]
    ELSE IF metricId \in missing
    THEN [matched |-> TRUE, color |-> missingColor, category |-> "Missing (Found)"]
    ELSE IF metricId \in noise
    THEN [matched |-> TRUE, color |-> noiseColor, category |-> "Noise"]
    ELSE [matched |-> FALSE, color |-> "", category |-> ""]

\* a label `${category}: ${metricId}${suffix}`
Label(category, metricId, suffix) == <<category, metricId, suffix>>

Element(metricId, timestamp, cls, suffix, isSolid) ==
    [metricId |-> metricId, timestamp |-> timestamp, color |-> cls.color,
     label |-> Label(cls.category, metricId, suffix), isSolid |-> isSolid, y |-> 0]

\* mutant: the end marker is the second timestamp, not the last
ReduceSecond(metricId, timestamps, cls) ==
    IF Len(timestamps) = 1
    THEN <<Element(metricId, timestamps[1], cls, "", FALSE)>>
    ELSE IF Len(timestamps) >= 2
    THEN <<Element(metricId, timestamps[1], cls, " (start)", FALSE),
           Element(metricId, timestamps[2], cls, " (end)", TRUE)>>
    ELSE <<>>

\* what one identifier pushes to graphElements, lines 485-495
Reduce(metricId, timestamps, cls) ==
    IF Len(timestamps) = 1
    THEN <<Element(metricId, timestamps[1], cls, "", FALSE)>>
    ELSE IF Len(timestamps) >= 2
    THEN <<Element(metricId, timestamps[1], cls, " (start)", FALSE),
           Element(metricId, timestamps[Len(timestamps)], cls, " (end)", TRUE)>>
    ELSE <<>>

\* metricMap.forEach, lines 457-496: graphElements before the final sort
RECURSIVE GraphElements(_, _, _, _, _, _)
GraphElements(keys, rows, expected, actual, noise, missing) ==
    IF keys = <<>> THEN <<>>
    ELSE LET metricId == Head(keys)
             timestamps == SortTimes(MetricMapGet(rows, metricId))
             cls == Classify(metricId, expected, actual, noise, missing)
             rest == GraphElements(Tail(keys), rows, expected, actual, noise, missing)
         IN  IF cls.matched THEN Reduce(metricId, timestamps, cls) \o rest ELSE rest

\* the entries metricMap.forEach puts into uniqueMetricsSet, lines 481-483
RECURSIVE FoundMetrics(_, _, _, _, _)
FoundMetrics(keys, expected, actual, noise, missing) ==
    IF keys = <<>> THEN <<>>
    ELSE LET metricId == Head(keys)
             cls == Classify(metricId, expected, actual, noise, missing)
             rest == FoundMetrics(Tail(keys), expected, actual, noise, missing)
         IN  IF cls.matched THEN <<[id |-> metricId, color |-> cls.color]>> \o rest
             ELSE rest

\* mutant: the test of allCsvMetricIds has lost its negation
RECURSIVE TrulyMissingInverted(_, _, _)
TrulyMissingInverted(missingSeq, allCsvMetricIds, have) ==
    IF missingSeq = <<>> THEN <<>>
    ELSE LET metricId == Head(missingSeq)
         IN  IF metricId \in allCsvMetricIds /\ metricId \notin have
             THEN <<[id |-> metricId, color |-> missingColor]>>
                  \o TrulyMissingInverted(Tail(missingSeq), allCsvMetricIds,
                                          have \cup {metricId})
             ELSE TrulyMissingInverted(Tail(missingSeq), allCsvMetricIds, have)

\* missingMetrics.forEach, lines 499-507: the "truly missing" metrics
RECURSIVE TrulyMissing(_, _, _)
TrulyMissing(missingSeq, allCsvMetricIds, have) ==
    IF missingSeq = <<>> THEN <<>>
    ELSE LET metricId == Head(missingSeq)
         IN  IF metricId \notin allCsvMetricIds /\ metricId \notin have
             THEN <<[id |-> metricId, color |-> missingColor]>>
                  \o TrulyMissing(Tail(missingSeq), allCsvMetricIds, have \cup {metricId})
             ELSE TrulyMissing(Tail(missingSeq), allCsvMetricIds, have)

ProcessedGraphData(csv, expected, actual, noise, missing) ==
    SortElements(GraphElements(MetricMapKeys(ValidRows(csv)), ValidRows(csv),
                               expected, actual, noise, missing))

UniqueMetrics(csv, expected, actual, noise, missing) ==
    LET found == FoundMetrics(MetricMapKeys(ValidRows(csv)),
                              expected, actual, noise, missing)
        have == {found[i].id : i \in 1..Len(found)}
    IN  SortMetrics(found \o TrulyMissing(SetToSeq(missing), AllCsvMetricIds(csv), have))

\* the memo's value in the current state
processedGraphData ==
    ProcessedGraphData(csvData, expectedMetrics, actualMetrics, noiseMetrics,
                       missingMetrics)

uniqueMetrics ==
    UniqueMetrics(csvData, expectedMetrics, actualMetrics, noiseMetrics, missingMetrics)

----------------------------------------------------------------------------
(* chartDomain (useMemo, lines 517-524) *)

\* 0.05 is 1 / PaddingDivisor: the domain is kept exactly, as a pair of
\* numerators over PaddingDivisor (a time t ms is the numerator Scaled(t))
PaddingDivisor == 20
FallbackPadding == 10000
Scaled(t) == t * PaddingDivisor

\* Math.min(...allTimestamps) and Math.max(...allTimestamps)
MinTime(timeline) ==
    CHOOSE t \in {timeline[i].timestamp : i \in 1..Len(timeline)} :
        \A i \in 1..Len(timeline) : t <= timeline[i].timestamp
MaxTime(timeline) ==
    CHOOSE t \in {timeline[i].timestamp : i \in 1..Len(timeline)} :
        \A i \in 1..Len(timeline) : t >= timeline[i].timestamp

\* (maxTime - minTime) * 0.05 || 10000, as a numerator over PaddingDivisor
Padding(minTime, maxTime) ==
    IF maxTime - minTime # 0 THEN maxTime - minTime ELSE Scaled(FallbackPadding)

\* mutant: the fallback for a zero span is left out
ChartDomainNoFallback(timeline) ==
    IF Len(timeline) = 0 THEN [min |-> Scaled(0), max |-> Scaled(1)]
    ELSE [min |-> Scaled(MinTime(timeline)) - (MaxTime(timeline) - MinTime(timeline)),
          max |-> Scaled(MaxTime(timeline)) + (MaxTime(timeline) - MinTime(timeline))]

ChartDomain(timeline) ==
    IF Len(timeline) = 0 THEN [min |-> Scaled(0), max |-> Scaled(1)]
    ELSE LET minTime == MinTime(timeline)
             maxTime == MaxTime(timeline)
             padding == Padding(minTime, maxTime)
         IN  [min |-> Scaled(minTime) - padding, max |-> Scaled(maxTime) + padding]

chartDomain == ChartDomain(processedGraphData)

----------------------------------------------------------------------------
(* Selection and emphasis *)

\* mutant: the identifier is appended without the includes() test
ToggleAppend(prev, metricId) == Append(prev, metricId)

\* the updater of handleLegendClick, lines 532-536
Toggle(prev, metricId) ==
    IF \E i \in 1..Len(prev) : prev[i] = metricId
    THEN SelectSeq(prev, LAMBDA id : id # metricId)
    ELSE Append(prev, metricId)

\* hoveredMetricId is <<>> for null and <<id>> for an identifier
NoHover == <<>>

\* CustomDot, lines 315-320
IsClicked(selected, metricId) == \E i \in 1..Len(selected) : selected[i] = metricId
IsHovered(hovered, metricId) == hovered = <<metricId>>
IsActive(selected, hovered, metricId) ==
    IsClicked(selected, metricId) \/ IsHovered(hovered, metricId)
\* mutant: a hover alone does not make the view filtered
IsFilteredViewSelectionOnly(selected, hovered) == Len(selected) > 0
IsFilteredView(selected, hovered) == Len(selected) > 0 \/ hovered # NoHover
IsDimmed(selected, hovered, metricId) ==
    IsFilteredView(selected, hovered) /\ ~IsActive(selected, hovered, metricId)

\* strokeWidth and strokeOpacity of the line CustomDot draws, lines 331-332
StrokeWidth(selected, hovered, metricId) ==
    IF IsActive(selected, hovered, metricId) THEN "3" ELSE "1.5"
StrokeOpacity(selected, hovered, metricId) ==
    IF IsDimmed(selected, hovered, metricId) THEN "0.2" ELSE "1"

----------------------------------------------------------------------------
(* Inputs *)

IdA == Str("a")
IdB == Str("b")
Ids == {IdA, IdB}

RECURSIVE Join(_, _)
Join(parts, sep) ==
    IF parts = <<>> THEN <<>>
    ELSE IF Len(parts) = 1 THEN parts[1]
    ELSE parts[1] \o <<sep>> \o Join(Tail(parts), sep)

SeqsUpTo(S, n) == UNION {[1..k -> S] : k \in 0..n}

Header == Join(<<METRICID, TIMESTAMP>>, ",")

\* the files of the application runs
FileA == Join(<<Header, Join(<<IdA, Str("1")>>, ","), Join(<<IdB, Str("2")>>, ","),
                Join(<<IdA, Str("3")>>, ",")>>, "\n")
FileB == Join(<<Header, Join(<<IdB, Str("2")>>, ",")>>, "\n")
FileBad == Join(<<Join(<<Str("x"), TIMESTAMP>>, ","), Join(<<IdA, Str("1")>>, ",")>>, "\n")
AppFiles == {FileA, FileB, FileBad}
AppRuleInputs == {{}, Ids}

\* the files of the parser runs: any header of up to MaxHeaderCells cells
HeaderCells == {METRICID, TIMESTAMP, <<" ", "METRICID", " ">>, <<"TIMESTAMP", " ">>,
                Str("metricid"), <<"METRICID", "x">>, Str("x"), <<>>}
Bodies == {<<>>, Str("\n"), Str(" "), <<"\n", "a", ",", "1">>,
           <<"\n", "a", ",", " ", "1", ",", "b", "\n", "b">>}
ParseFiles ==
    {Join(cells, ",") \o body : cells \in SeqsUpTo(HeaderCells, MaxHeaderCells),
                                body \in Bodies}

\* the files of the pipeline runs: a good header and up to MaxRows rows
TimestampTexts == {Str("1"), Str("2"), Str("3"), Str("x")}
DataRows == {Join(<<IdA, ts>>, ",") : ts \in TimestampTexts}
                \cup {Join(<<IdB, ts>>, ",") : ts \in {Str("2"), Str("x")}}
PipelineFiles == {Join(<<Header>> \o rows, "\n") : rows \in SeqsUpTo(DataRows, MaxRows)}

----------------------------------------------------------------------------
(* The component *)

Init ==
    /\ csvData = <<>>
    /\ expectedMetrics = {}
    /\ actualMetrics = {}
    /\ noiseMetrics = {}
    /\ missingMetrics = {}
    /\ selectedMetricIds = <<>>
    /\ hoveredMetricId = NoHover
    /\ readers = {}
    /\ uploaded = <<>>
    /\ toasts = <<>>

\* handleFileUpload, lines 369-393: a FileReader starts reading the file
HandleFileUpload(text) ==
    /\ Len(uploaded) < MaxUploads
    /\ uploaded' = Append(uploaded, text)
    /\ readers' = readers \cup {[upload |-> Len(uploaded) + 1, text |-> text]}
    /\ UNCHANGED <<csvData, expectedMetrics, actualMetrics, noiseMetrics,
                   missingMetrics, selectedMetricIds, hoveredMetricId, toasts>>

\* mutant: setCsvData runs whether or not parseCsv threw
OnLoadCsvDataAlways(parsed, prev) == parsed.data

\* what reader.onload leaves in csvData, lines 375-389
OnLoadCsvData(parsed, prev) == IF parsed.threw THEN prev ELSE parsed.data

\* the toast reader.onload issues, lines 378-388
OnLoadToast(parsed, upload) ==
    IF parsed.threw
    THEN [title |-> "Error", variant |-> "destructive", upload |-> upload]
    ELSE [title |-> "CSV Uploaded", variant |-> "default", upload |-> upload]

\* reader.onload, lines 373-390: the read of one reader completes
ReaderOnLoad(r) ==
    /\ r \in readers
    /\ readers' = readers \ {r}
    /\ LET parsed == ParseCsv(r.text)
       IN  /\ csvData' = OnLoadCsvData(parsed, csvData)
           /\ toasts' = Append(toasts, OnLoadToast(parsed, r.upload))
    /\ UNCHANGED <<expectedMetrics, actualMetrics, noiseMetrics, missingMetrics,
                   selectedMetricIds, hoveredMetricId, uploaded>>

\* the onChange handlers of the four identifier lists, lines 570-584
SetExpectedMetricsInput(S) ==
    /\ expectedMetrics' = S
    /\ UNCHANGED <<csvData, actualMetrics, noiseMetrics, missingMetrics,
                   selectedMetricIds, hoveredMetricId, readers, uploaded, toasts>>

SetActualMetricsInput(S) ==
    /\ actualMetrics' = S
    /\ UNCHANGED <<csvData, expectedMetrics, noiseMetrics, missingMetrics,
                   selectedMetricIds, hoveredMetricId, readers, uploaded, toasts>>

SetNoiseMetricsInput(S) ==
    /\ noiseMetrics' = S
    /\ UNCHANGED <<csvData, expectedMetrics, actualMetrics, missingMetrics,
                   selectedMetricIds, hoveredMetricId, readers, uploaded, toasts>>

SetMissingMetricsInput(S) ==
    /\ missingMetrics' = S
    /\ UNCHANGED <<csvData, expectedMetrics, actualMetrics, noiseMetrics,
                   selectedMetricIds, hoveredMetricId, readers, uploaded, toasts>>

LegendIds == {uniqueMetrics[i].id : i \in 1..Len(uniqueMetrics)}

\* handleLegendClick, lines 531-537, from a legend item's onClick (line 670)
HandleLegendClick(metricId) ==
    /\ metricId \in LegendIds
    /\ selectedMetricIds' = Toggle(selectedMetricIds, metricId)
    /\ UNCHANGED <<csvData, expectedMetrics, actualMetrics, noiseMetrics,
                   missingMetrics, hoveredMetricId, readers, uploaded, toasts>>

\* onMouseEnter of a legend item, line 671
LegendMouseEnter(metricId) ==
    /\ metricId \in LegendIds
    /\ hoveredMetricId' = <<metricId>>
    /\ UNCHANGED <<csvData, expectedMetrics, actualMetrics, noiseMetrics,
                   missingMetrics, selectedMetricIds, readers, uploaded, toasts>>

\* onMouseLeave of a legend item, line 672
LegendMouseLeave ==
    /\ LegendIds # {}
    /\ hoveredMetricId' = NoHover
    /\ UNCHANGED <<csvData, expectedMetrics, actualMetrics, noiseMetrics,
                   missingMetrics, selectedMetricIds, readers, uploaded, toasts>>

\* handleChartMouseMove, lines 539-550; activePayload is <<>> or one entry
HandleChartMouseMove(activePayload) ==
    /\ processedGraphData # <<>>
    /\ hoveredMetricId' =
         IF activePayload # <<>>
         THEN (IF hoveredMetricId # <<activePayload[1].metricId>>
               THEN <<activePayload[1].metricId>> ELSE hoveredMetricId)
         ELSE (IF hoveredMetricId # NoHover THEN NoHover ELSE hoveredMetricId)
    /\ UNCHANGED <<csvData, expectedMetrics, actualMetrics, noiseMetrics,
                   missingMetrics, selectedMetricIds, readers, uploaded, toasts>>

\* handleChartMouseLeave, lines 552-554
HandleChartMouseLeave ==
    /\ processedGraphData # <<>>
    /\ hoveredMetricId' = NoHover
    /\ UNCHANGED <<csvData, expectedMetrics, actualMetrics, noiseMetrics,
                   missingMetrics, selectedMetricIds, readers, uploaded, toasts>>

Payloads == {<<>>} \cup {<<processedGraphData[i]>> : i \in 1..Len(processedGraphData)}

Next ==
    \/ \E text \in AppFiles : HandleFileUpload(text)
    \/ \E r \in readers : ReaderOnLoad(r)
    \/ \E S \in AppRuleInputs : SetExpectedMetricsInput(S)
    \/ \E S \in AppRuleInputs : SetActualMetricsInput(S)
    \/ \E S \in AppRuleInputs : SetNoiseMetricsInput(S)
    \/ \E S \in AppRuleInputs : SetMissingMetricsInput(S)
    \/ \E metricId \in LegendIds : HandleLegendClick(metricId)
    \/ \E metricId \in LegendIds : LegendMouseEnter(metricId)
    \/ LegendMouseLeave
    \/ \E activePayload \in Payloads : HandleChartMouseMove(activePayload)
    \/ HandleChartMouseLeave

Spec == Init /\ [][Next]_vars

\* the parser alone: one upload of any of ParseFiles, then its read completes
InitParse ==
    /\ \E text \in ParseFiles :
          /\ uploaded = <<text>>
          /\ readers = {[upload |-> 1, text |-> text]}
    /\ csvData = <<>>
    /\ expectedMetrics = {}
    /\ actualMetrics = {}
    /\ noiseMetrics = {}
    /\ missingMetrics = {}
    /\ selectedMetricIds = <<>>
    /\ hoveredMetricId = NoHover
    /\ toasts = <<>>

NextParse == \E r \in readers : ReaderOnLoad(r)

SpecParse == InitParse /\ [][NextParse]_vars

\* the pipeline alone: any four identifier lists, one upload of any of PipelineFiles
InitPipeline ==
    /\ \E text \in PipelineFiles :
          /\ uploaded = <<text>>
          /\ readers = {[upload |-> 1, text |-> text]}
    /\ csvData = <<>>
    /\ expectedMetrics \in SUBSET Ids
    /\ actualMetrics \in SUBSET Ids
    /\ noiseMetrics \in SUBSET Ids
    /\ missingMetrics \in SUBSET Ids
    /\ selectedMetricIds = <<>>
    /\ hoveredMetricId = NoHover
    /\ toasts = <<>>

NextPipeline == \E r \in readers : ReaderOnLoad(r)

SpecPipeline == InitPipeline /\ [][NextPipeline]_vars

----------------------------------------------------------------------------
(* Vocabulary of the properties *)

Loaded == readers = {} /\ uploaded # <<>>

\* the identifiers of the data rows, and their parsable timestamps
RowIds == {csvData[i].METRICID : i \in 1..Len(csvData)}
ValidRowsOf(id) ==
    {i \in 1..Len(csvData) :
        csvData[i].METRICID = id /\ ParseISO(csvData[i].TIMESTAMP).valid}
ValidTimesOf(id) == {ParseISO(csvData[i].TIMESTAMP).time : i \in ValidRowsOf(id)}
Least(S) == CHOOSE x \in S : \A y \in S : x <= y
Greatest(S) == CHOOSE x \in S : \A y \in S : x >= y

Declared == expectedMetrics \cup actualMetrics \cup noiseMetrics \cup missingMetrics
EntriesOf(timeline, id) == {i \in 1..Len(timeline) : timeline[i].metricId = id}
LegendOf(legend, id) == {i \in 1..Len(legend) : legend[i].id = id}

----------------------------------------------------------------------------
(* C1: the timeline is sorted non-decreasing by timestamp: whatever the    *)
(* data set and the four identifier lists, an earlier entry of             *)
(* processedGraphData never has a later timestamp than a later entry.      *)

C1_TimelineSorted ==
    LET timeline == processedGraphData
    IN  \A i, j \in 1..Len(timeline) :
            i < j => timeline[i].timestamp <= timeline[j].timestamp

\* the identifiers were pushed out of time order and the sort moved an entry
C1_Witness ==
    /\ Loaded
    /\ Len(processedGraphData) >= 3
    /\ processedGraphData #
         GraphElements(MetricMapKeys(ValidRows(csvData)), ValidRows(csvData),
                       expectedMetrics, actualMetrics, noiseMetrics, missingMetrics)

(* C2: an identifier that matches a category and has two or more parsable  *)
(* timestamps has exactly two timeline entries: a start entry (dashed) at  *)
(* the least timestamp of its rows and an end entry (solid) at the         *)
(* greatest, start <= end, and no other timestamp of its rows appears.     *)

C2_IntervalReduction ==
    LET timeline == processedGraphData
    IN  \A id \in RowIds :
            (id \in Declared /\ Cardinality(ValidRowsOf(id)) >= 2) =>
                LET entries == EntriesOf(timeline, id)
                    oldest == Least(ValidTimesOf(id))
                    latest == Greatest(ValidTimesOf(id))
                IN  /\ Cardinality(entries) = 2
                    /\ \E s, e \in entries :
                          /\ s # e
                          /\ timeline[s].timestamp = oldest
                          /\ timeline[s].label[3] = " (start)"
                          /\ ~timeline[s].isSolid
                          /\ timeline[e].timestamp = latest
                          /\ timeline[e].label[3] = " (end)"
                          /\ timeline[e].isSolid
                          /\ timeline[s].timestamp <= timeline[e].timestamp
                    /\ \A i \in entries : timeline[i].timestamp \in {oldest, latest}

\* a matched identifier with three different timestamps: the middle one is dropped
C2_Witness ==
    /\ Loaded
    /\ \E id \in RowIds \cap Declared :
          /\ Cardinality(ValidTimesOf(id)) = 3
          /\ Cardinality(EntriesOf(processedGraphData, id)) = 2

(* C3: classification is first match in the rule order Expected, Actual,   *)
(* Missing, Noise (the order of lines 463-479): every timeline entry, and  *)
(* the legend entry of its identifier, carries the color and the label of  *)
(* the first of these lists that holds the identifier; an identifier in    *)
(* both the expected and the actual list is classified Expected.           *)

FirstMatch(id) ==
    IF id \in expectedMetrics THEN <<"Expected", expectedColor>>
    ELSE IF id \in actualMetrics THEN <<"Actual", actualColor>>
    ELSE IF id \in missingMetrics THEN <<"Missing (Found)", missingColor>>
    ELSE <<"Noise", noiseColor>>

C3_FirstMatchWins ==
    LET timeline == processedGraphData
        legend == uniqueMetrics
    IN  /\ \A i \in 1..Len(timeline) :
              LET e == timeline[i]
              IN  /\ e.metricId \in Declared
                  /\ e.label[1] = FirstMatch(e.metricId)[1]
                  /\ e.label[2] = e.metricId
                  /\ e.color = FirstMatch(e.metricId)[2]
                  /\ LegendOf(legend, e.metricId) # {}
                  /\ \A k \in LegendOf(legend, e.metricId) :
                        legend[k].color = FirstMatch(e.metricId)[2]
        /\ \A id \in RowIds :
              (id \in Declared /\ ValidRowsOf(id) # {}) => EntriesOf(timeline, id) # {}

\* an identifier of all four lists, and one of the actual list and later ones only
C3_Witness ==
    /\ Loaded
    /\ \E id \in expectedMetrics \cap actualMetrics \cap noiseMetrics \cap missingMetrics :
          EntriesOf(processedGraphData, id) # {}
    /\ \E id \in (actualMetrics \cap noiseMetrics \cap missingMetrics) \ expectedMetrics :
          EntriesOf(processedGraphData, id) # {}

(* C4, as claimed: for any category, an identifier listed only in that     *)
(* category's list and absent from all data rows has exactly one legend    *)
(* entry, in that category's color, and no timeline entry (stated of the   *)
(* states in which a data set with rows is loaded).                        *)

OnlyIn(id, S) ==
    /\ id \in S
    /\ \A T \in {expectedMetrics, actualMetrics, noiseMetrics, missingMetrics} :
          id \in T => T = S

DeclaredAbsent(id, S, color) ==
    (OnlyIn(id, S) /\ id \notin RowIds) =>
        /\ Cardinality(LegendOf(uniqueMetrics, id)) = 1
        /\ \A k \in LegendOf(uniqueMetrics, id) : uniqueMetrics[k].color = color
        /\ EntriesOf(processedGraphData, id) = {}

C4_AnyCategoryDeclaredAbsent ==
    \A id \in Declared :
        (Loaded /\ csvData # <<>>) =>
        /\ DeclaredAbsent(id, expectedMetrics, expectedColor)
        /\ DeclaredAbsent(id, actualMetrics, actualColor)
        /\ DeclaredAbsent(id, noiseMetrics, noiseColor)
        /\ DeclaredAbsent(id, missingMetrics, missingColor)

(* C4, amended: an identifier listed only in the missing list and absent   *)
(* from all data rows has exactly one legend entry, in the missing color,  *)
(* and no timeline entry; an identifier listed only in the expected, the   *)
(* actual or the noise list and absent from all data rows has no legend    *)
(* entry and no timeline entry.                                            *)

C4_MissingDeclaredAbsent ==
    \A id \in Declared :
        /\ DeclaredAbsent(id, missingMetrics, missingColor)
        /\ \A S \in {expectedMetrics, actualMetrics, noiseMetrics} :
              (OnlyIn(id, S) /\ id \notin missingMetrics /\ id \notin RowIds) =>
                  /\ LegendOf(uniqueMetrics, id) = {}
                  /\ EntriesOf(processedGraphData, id) = {}

\* data is loaded, one identifier is declared missing only and has no row
C4_Witness ==
    /\ Loaded
    /\ csvData # <<>>
    /\ \E id \in missingMetrics :
          /\ OnlyIn(id, missingMetrics)
          /\ id \notin RowIds
          /\ Cardinality(LegendOf(uniqueMetrics, id)) = 1

----------------------------------------------------------------------------
(* C5: when the read of an upload completes and its text fails parsing,    *)
(* csvData stays as it was, and so do the four identifier lists, so that   *)
(* the timeline and the legend, which are functions of these alone (the    *)
(* dependencies of line 515), stay as they were; the toast issued for that *)
(* upload is the failure toast, and no success toast is ever issued for an *)
(* upload whose text fails parsing.                                        *)

C5_FailedUploadKeepsData ==
    [][/\ \A r \in readers :
            (ParseCsv(r.text).threw /\ readers' = readers \ {r}) =>
                /\ csvData' = csvData
                /\ UNCHANGED <<expectedMetrics, actualMetrics, noiseMetrics,
                               missingMetrics>>
                /\ toasts' = Append(toasts, [title |-> "Error",
                                             variant |-> "destructive",
                                             upload |-> r.upload])
       /\ \A i \in 1..Len(toasts') :
            ParseCsv(uploaded'[toasts'[i].upload]).threw =>
                toasts'[i].variant = "destructive"]_vars

\* a data set is in effect and the last upload to complete failed parsing
C5_Witness ==
    /\ csvData # <<>>
    /\ processedGraphData # <<>>
    /\ toasts # <<>>
    /\ toasts[Len(toasts)].variant = "destructive"
    /\ ParseCsv(uploaded[toasts[Len(toasts)].upload]).threw

(* C6: parseCsv throws when the header row has neither a METRICID nor a    *)
(* TIMESTAMP cell (compared exactly, case-sensitively, after trimming),    *)
(* and does not throw when the header row has both, wherever they stand    *)
(* and whatever other cells it has.                                        *)

HeaderRow(text) == SplitTrim(Split(Trim(text), "\n")[1])
HasColumn(text, name) == \E i \in 1..Len(HeaderRow(text)) : HeaderRow(text)[i] = name

C6_HeaderDecidesFormatError ==
    \A i \in 1..Len(toasts) :
        LET text == uploaded[toasts[i].upload]
        IN  /\ (~HasColumn(text, METRICID) /\ ~HasColumn(text, TIMESTAMP)) =>
                  /\ ParseCsv(text).threw
                  /\ toasts[i].variant = "destructive"
            /\ (HasColumn(text, METRICID) /\ HasColumn(text, TIMESTAMP)) =>
                  /\ ~ParseCsv(text).threw
                  /\ toasts[i].variant = "default"

\* a header with both names, padded, TIMESTAMP first, after another cell: no error
C6_Witness ==
    /\ toasts # <<>>
    /\ toasts[1].variant = "default"
    /\ HeaderRow(uploaded[1]) = <<Str("x"), TIMESTAMP, METRICID>>
    /\ uploaded[1][2] = ","
    /\ uploaded[1][4] = " "

(* C7: empty input is not an error: a text with no content at all, or with *)
(* a good header row and no row after it, parses to the empty sequence    *)
(* and the success toast is issued.                                        *)

NoRows(text) ==
    \/ Trim(text) = <<>>
    \/ /\ Len(Split(Trim(text), "\n")) = 1
       /\ HasColumn(text, METRICID)
       /\ HasColumn(text, TIMESTAMP)

C7_EmptyInputIsNoError ==
    \A i \in 1..Len(toasts) :
        NoRows(uploaded[toasts[i].upload]) =>
            /\ ~ParseCsv(uploaded[toasts[i].upload]).threw
            /\ ParseCsv(uploaded[toasts[i].upload]).data = <<>>
            /\ toasts[i].variant = "default"

(* C8: a new upload supersedes the prior one: once the reads of all the    *)
(* uploads have completed, and every uploaded text parses, csvData is the  *)
(* data set parsed from the last upload.                                   *)

C8_LastUploadInEffect ==
    (/\ Len(uploaded) >= 2
     /\ readers = {}
     /\ \A u \in 1..Len(uploaded) : ~ParseCsv(uploaded[u]).threw)
        => csvData = ParseCsv(uploaded[Len(uploaded)]).data

(* C9: handleLegendClick adds the identifier to the selection when it is   *)
(* absent and removes it when it is present, and leaves the other          *)
(* identifiers as they are; two clicks in a row on one identifier restore  *)
(* the selected set; no identifier is ever selected twice.                 *)

Selected(selected) == {selected[i] : i \in 1..Len(selected)}

C9_ToggleSelect ==
    /\ \A i, j \in 1..Len(selectedMetricIds) :
          i # j => selectedMetricIds[i] # selectedMetricIds[j]
    /\ \A id \in Ids :
          LET once == Toggle(selectedMetricIds, id)
              twice == Toggle(once, id)
          IN  /\ Selected(once) =
                    IF id \in Selected(selectedMetricIds)
                    THEN Selected(selectedMetricIds) \ {id}
                    ELSE Selected(selectedMetricIds) \cup {id}
              /\ Selected(twice) = Selected(selectedMetricIds)
              /\ \A i, j \in 1..Len(twice) : i # j => twice[i] # twice[j]

\* both identifiers were clicked, the second one first
C9_Witness == selectedMetricIds = <<IdB, IdA>>

(* C10: an entry is bold (stroke width 3) exactly when its identifier is   *)
(* selected or hovered; it is dimmed (opacity 0.2) exactly when something  *)
(* is selected or hovered and its identifier is neither; never both; with  *)
(* nothing selected and nothing hovered no entry is bold or dimmed.        *)

C10_Emphasis ==
    LET timeline == processedGraphData
    IN  \A i \in 1..Len(timeline) :
            LET id == timeline[i].metricId
                bold == StrokeWidth(selectedMetricIds, hoveredMetricId, id) = "3"
                dimmed == StrokeOpacity(selectedMetricIds, hoveredMetricId, id) = "0.2"
                chosen == id \in Selected(selectedMetricIds) \/ hoveredMetricId = <<id>>
            IN  /\ bold <=> chosen
                /\ dimmed <=>
                      /\ selectedMetricIds # <<>> \/ hoveredMetricId # NoHover
                      /\ ~chosen
                /\ ~(bold /\ dimmed)
                /\ (selectedMetricIds = <<>> /\ hoveredMetricId = NoHover)
                      => ~bold /\ ~dimmed

\* nothing is selected, one identifier is hovered and another one has entries
C10_Witness ==
    /\ selectedMetricIds = <<>>
    /\ hoveredMetricId = <<IdA>>
    /\ \E i, j \in 1..Len(processedGraphData) :
          /\ processedGraphData[i].metricId = IdA
          /\ processedGraphData[j].metricId = IdB

----------------------------------------------------------------------------
(* C12: for a non-empty timeline whose earliest timestamp is lo and whose  *)
(* latest is hi, the domain is [lo - p, hi + p] with p = 0.05 * (hi - lo)  *)
(* when hi > lo and p = 10000 ms when hi = lo; it has positive width and   *)
(* every entry's timestamp lies strictly inside it; for an empty timeline  *)
(* the domain is [0, 1].  (All numbers as numerators over PaddingDivisor.) *)

C12_Domain ==
    LET timeline == processedGraphData
        domain == ChartDomain(timeline)
        times == {timeline[i].timestamp : i \in 1..Len(timeline)}
    IN  IF timeline = <<>>
        THEN domain.min = 0 /\ domain.max = 1 * 20
        ELSE LET lo == Least(times)
                 hi == Greatest(times)
                 p == IF hi > lo THEN hi - lo ELSE 10000 * 20
             IN  /\ domain.min = lo * 20 - p
                 /\ domain.max = hi * 20 + p
                 /\ domain.min < domain.max
                 /\ \A t \in times : domain.min < t * 20 /\ t * 20 < domain.max

\* a loaded timeline whose entries all have the same timestamp
C12_Witness ==
    /\ Loaded
    /\ Len(processedGraphData) >= 2
    /\ \A i \in 1..Len(processedGraphData) :
          processedGraphData[i].timestamp = processedGraphData[1].timestamp
    /\ chartDomain.max - chartDomain.min = 2 * Scaled(FallbackPadding)

----------------------------------------------------------------------------
(* C13: the legend has exactly one entry for every identifier that has a   *)
(* timeline entry or is declared missing and is absent from the data rows, *)
(* and no entry for any other identifier; no identifier has two entries.   *)

C13_LegendExactly ==
    LET timeline == processedGraphData
        legend == uniqueMetrics
    IN  /\ \A k \in 1..Len(legend) : legend[k].id \in Declared \cup RowIds
        /\ \A id \in Declared \cup RowIds :
              Cardinality(LegendOf(legend, id)) =
                  IF \/ EntriesOf(timeline, id) # {}
                     \/ id \in missingMetrics /\ id \notin RowIds
                  THEN 1 ELSE 0

(* C14: in the sorted timeline the start entry of an identifier stands     *)
(* before its end entry, also when both have the same timestamp, and       *)
(* entries with equal timestamps stand in the order in which they were     *)
(* pushed to graphElements.                                                *)

Pushed ==
    GraphElements(MetricMapKeys(ValidRows(csvData)), ValidRows(csvData),
                  expectedMetrics, actualMetrics, noiseMetrics, missingMetrics)
PositionIn(elements, e) == CHOOSE i \in 1..Len(elements) : elements[i] = e

C14_StartBeforeEnd ==
    LET timeline == processedGraphData
        pushed == Pushed
    IN  /\ \A s, e \in 1..Len(timeline) :
              (/\ timeline[s].metricId = timeline[e].metricId
               /\ timeline[s].label[3] = " (start)"
               /\ timeline[e].label[3] = " (end)") => s < e
        /\ \A i, j \in 1..Len(timeline) :
              (i < j /\ timeline[i].timestamp = timeline[j].timestamp) =>
                  PositionIn(pushed, timeline[i]) < PositionIn(pushed, timeline[j])

\* an interval whose start and end coincide, tied with another identifier's entry
C14_Witness ==
    /\ Loaded
    /\ \E s, e, o \in 1..Len(processedGraphData) :
          /\ processedGraphData[s].metricId = processedGraphData[e].metricId
          /\ processedGraphData[s].label[3] = " (start)"
          /\ processedGraphData[e].label[3] = " (end)"
          /\ processedGraphData[o].metricId # processedGraphData[s].metricId
          /\ processedGraphData[s].timestamp = processedGraphData[e].timestamp
          /\ processedGraphData[o].timestamp = processedGraphData[s].timestamp

(* C15: the rows whose timestamp does not parse change nothing but their   *)
(* own absence: the timeline and the legend of a data set are those of the *)
(* data set without these rows, and an identifier none of whose rows       *)
(* parses has no timeline entry.                                           *)

Parsable(item) == ParseISO(item.TIMESTAMP).valid
WithoutUnparsable == SelectSeq(csvData, Parsable)

----------------------------------------------------------------------------
(* C11: the selection state is reset when the identifier set underlying    *)
(* the timeline changes: a step (a completed upload, a change of an        *)
(* identifier list) after which the timeline has another set of            *)
(* identifiers leaves the selected set empty and no identifier hovered.    *)

TimelineIdsOf(csv, expected, actual, noise, missing) ==
    LET timeline == ProcessedGraphData(csv, expected, actual, noise, missing)
    IN  {timeline[i].metricId : i \in 1..Len(timeline)}

TimelineIds ==
    TimelineIdsOf(csvData, expectedMetrics, actualMetrics, noiseMetrics, missingMetrics)

C11_SelectionReset ==
    [][\A csv \in {csvData'}, expected \in {expectedMetrics'}, actual \in {actualMetrics'},
          noise \in {noiseMetrics'}, missing \in {missingMetrics'} :
          TimelineIdsOf(csv, expected, actual, noise, missing) # TimelineIds =>
              selectedMetricIds' = <<>> /\ hoveredMetricId' = NoHover]_vars

=============================================================================
